---- MODULE Spec2Model ----
(***************************************************************************)
(* The JOS kernel monitor (kern/monitor.c): the console loop, the command  *)
(* line tokenizer and dispatcher, the numeral parser and the monitor       *)
(* commands, as a state machine.                                           *)
(*                                                                         *)
(* Characters are ASCII codes; a C string is a sequence of codes (its      *)
(* terminating NUL is the end of the sequence, or an explicit 0 written    *)
(* into the buffer by the tokenizer).                                      *)
(* A 32-bit machine word is a record [pg, off]: its upper 20 bits and its  *)
(* lower 12 bits, so that word arithmetic keeps its width (mod 2^32).      *)
(***************************************************************************)
EXTENDS Integers, Sequences, FiniteSets, TLC

----------------------------------------------------------------------------
(* Machine words *)

\* page size in bytes: the stride of mon_showmappings and the width of the
\* low-order field that setPerm clears (0xfff = PGSIZE - 1)
PGSIZE == 4096

\* number of values of the upper 20 bits of a 32-bit word
NPG == 1024 * 1024

W(p, o) == [pg |-> p, off |-> o]

W0 == W(0, 0)

\* unsigned comparison of two words
WLe(a, b) == a.pg < b.pg \/ (a.pg = b.pg /\ a.off <= b.off)

WLt(a, b) == a.pg < b.pg \/ (a.pg = b.pg /\ a.off < b.off)

\* a + k for a small integer k (possibly negative), modulo 2^32
WAdd(a, k) ==
    LET o == a.off + k
    IN  W((a.pg + (o \div PGSIZE)) % NPG, o % PGSIZE)

\* a * k for a small positive integer k, modulo 2^32
WMul(a, k) ==
    LET o == a.off * k
    IN  W((a.pg * k + (o \div PGSIZE)) % NPG, o % PGSIZE)

\* bitwise or / and of two naturals below 2^n
RECURSIVE BitOr(_, _, _)
BitOr(a, b, n) ==
    IF n = 0 THEN 0
    ELSE (IF a % 2 = 1 \/ b % 2 = 1 THEN 1 ELSE 0)
         + 2 * BitOr(a \div 2, b \div 2, n - 1)

RECURSIVE BitAnd(_, _, _)
BitAnd(a, b, n) ==
    IF n = 0 THEN 0
    ELSE (IF a % 2 = 1 /\ b % 2 = 1 THEN 1 ELSE 0)
         + 2 * BitAnd(a \div 2, b \div 2, n - 1)

----------------------------------------------------------------------------
(* convert: the numeral parser *)

\* *p of a buffer: the character at position p, NUL at and after the end
At(b, p) == IF p <= Len(b) THEN b[p] ELSE 0

\* c[0] == '0' && c[1] == 'x'
ConvIsHex(c) == Len(c) >= 2 /\ c[1] = 48 /\ c[2] = 120

ConvBase(c) == IF ConvIsHex(c) THEN 16 ELSE 10

\* the characters the loop consumes: c += 2 after a "0x" prefix
ConvBody(c) == IF ConvIsHex(c) THEN SubSeq(c, 3, Len(c)) ELSE c

\* a digit value that forgets the 10 of the letters
ConvDigit_noTen(ch) == IF ch <= 57 THEN ch - 48 ELSE ch - 97

\* a digit value that takes only '0'..'9' for decimal digits
ConvDigit_onlyDigits(ch) == IF ch \in 48..57 THEN ch - 48 ELSE ch - 97 + 10

\* value added for the character ch
ConvDigit(ch) == IF ch <= 57 THEN ch - 48 ELSE ch - 97 + 10

\* one iteration of the while loop: res *= base; res += digit.  res is an
\* int; the build's 32-bit two's-complement arithmetic wraps, and the bits
\* are those of the unsigned sum modulo 2^32.
ConvStepRes(res, base, ch) == WAdd(WMul(res, base), ConvDigit(ch))

\* the while loop, from position p of the token on (res.off is never
\* negative: the test only makes the evaluation of res strict)
RECURSIVE ConvLoop(_, _, _, _)
ConvLoop(c, p, base, res) ==
    IF At(c, p) = 0 \/ res.off < 0 THEN res
    ELSE ConvLoop(c, p + 1, base, ConvStepRes(res, base, c[p]))

convert(c) == ConvLoop(ConvBody(c), 1, ConvBase(c), W0)

----------------------------------------------------------------------------
(* runcmd: the tokenizer *)

\* a whitespace set without the carriage return
WHITESPACE_noCR == {9, 10, 32}

\* "\t\r\n "
WHITESPACE == {9, 13, 10, 32}

MAXARGS == 16

\* *buf && strchr(WHITESPACE, *buf)
IsWs(ch) == ch # 0 /\ ch \in WHITESPACE

\* a scan that stops at a space only
IsArgChar_spaceOnly(ch) == ch # 0 /\ ch # 32

\* *buf && !strchr(WHITESPACE, *buf)
IsArgChar(ch) == ch # 0 /\ ch \notin WHITESPACE

\* while (*buf && strchr(WHITESPACE, *buf)) *buf++ = 0;
RECURSIVE Gobble(_, _)
Gobble(b, p) ==
    IF IsWs(At(b, p)) THEN Gobble([b EXCEPT ![p] = 0], p + 1)
    ELSE [buf |-> b, p |-> p]

\* while (*buf && !strchr(WHITESPACE, *buf)) buf++;
RECURSIVE ScanArg(_, _)
ScanArg(b, p) == IF IsArgChar(At(b, p)) THEN ScanArg(b, p + 1) ELSE p

\* a limit test that lets one more token in
ArgvFull_late(argc) == argc = MAXARGS

\* no limit test
ArgvFull_never(argc) == FALSE

\* the token limit test of the parse loop
ArgvFull(argc) == argc = MAXARGS - 1

\* the parse loop: argv holds the start positions of the tokens in buf
RECURSIVE ParseLoop(_, _, _)
ParseLoop(b, p, av) ==
    LET g == Gobble(b, p)
    IN  IF At(g.buf, g.p) = 0
        THEN [ok |-> TRUE, buf |-> g.buf, argv |-> av]
        ELSE IF ArgvFull(Len(av))
        THEN [ok |-> FALSE, buf |-> g.buf, argv |-> av]
        ELSE ParseLoop(g.buf, ScanArg(g.buf, g.p), Append(av, g.p))

\* the C string that starts at position p of the buffer
RECURSIVE CStr(_, _)
CStr(b, p) == IF At(b, p) = 0 THEN <<>> ELSE <<b[p]>> \o CStr(b, p + 1)

\* the argument strings a handler sees through argv
ArgStrings(b, av) == [k \in 1..Len(av) |-> CStr(b, av[k])]

\* the indexes of char *argv[MAXARGS] that runcmd stores to: argv[0] = 0
\* before the loop, argv[argc++] = buf for each token, and argv[argc] = 0
\* after the loop, which a rejected line does not reach
ArgvWritten(av, ok) ==
    {0} \cup {k - 1 : k \in 1..Len(av)} \cup (IF ok THEN {Len(av)} ELSE {})

\* what slot k of the array holds after these stores: the start of token
\* k + 1 in the buffer, or 0, the null pointer
ArgvSlot(av, k) == IF k < Len(av) THEN av[k + 1] ELSE 0

----------------------------------------------------------------------------
(* The command table *)

Str_help == <<104, 101, 108, 112>>

Str_kerninfo == <<107, 101, 114, 110, 105, 110, 102, 111>>

Str_backtrace == <<98, 97, 99, 107, 116, 114, 97, 99, 101>>

Str_showmappings == <<115, 104, 111, 119, 109, 97, 112, 112, 105, 110, 103, 115>>

Str_setPerm == <<115, 101, 116, 80, 101, 114, 109>>

Str_vvm == <<118, 118, 109>>

Str_vpm == <<118, 112, 109>>

commands ==
    << [name |-> Str_help,         func |-> "mon_help"],
       [name |-> Str_kerninfo,     func |-> "mon_kerninfo"],
       [name |-> Str_backtrace,    func |-> "mon_backtrace"],
       [name |-> Str_showmappings, func |-> "mon_showmappings"],
       [name |-> Str_setPerm,      func |-> "setPerm"],
       [name |-> Str_vvm,          func |-> "vvm"],
       [name |-> Str_vpm,          func |-> "vpm"] >>

NCOMMANDS == Len(commands)

\* strcmp(a, b): 0 when the strings are equal, else the difference of the
\* first pair of characters that differ (NUL past the end)
RECURSIVE strcmp(_, _)
strcmp(a, b) ==
    IF a = <<>> \/ b = <<>> \/ a[1] # b[1]
    THEN At(a, 1) - At(b, 1)
    ELSE strcmp(Tail(a), Tail(b))

\* a lookup that compares only the characters of the token (strncmp)
CmdMatches_prefix(arg0, k) ==
    strcmp(arg0, SubSeq(commands[k].name, 1, Len(arg0))) = 0

\* the test of the lookup loop for table entry k
CmdMatches(arg0, k) == strcmp(arg0, commands[k].name) = 0

\* for (i = 0; i < NCOMMANDS; i++) if (strcmp(...) == 0) ...: the first
\* entry whose name matches, 0 when the loop falls through
RECURSIVE LookupFrom(_, _)
LookupFrom(arg0, k) ==
    IF k > NCOMMANDS THEN 0
    ELSE IF CmdMatches(arg0, k) THEN k
    ELSE LookupFrom(arg0, k + 1)

Lookup(arg0) == LookupFrom(arg0, 1)

----------------------------------------------------------------------------
(* The address space: page directory, page tables, memory *)

\* entries per page table and per page directory
NPTENTRIES == 1024

\* page-table entry flags
PTE_P == 1

PTE_W == 2

PTE_U == 4

\* first page of the kernel's fixed mapping of physical memory (KERNBASE)
KERNPG == 983040

\* page-directory index of an address
PDX(va) == va.pg \div NPTENTRIES

HasFlag(pte, f) == BitAnd(pte.off, f, 12) # 0

\* the page-directory indexes of the kernel's fixed mapping: all of
\* [KERNBASE, 2^32), present since boot
KernPDX == {x \in 0..(NPTENTRIES - 1) : x >= KERNPG \div NPTENTRIES}

\* the leaf entry of page p as boot left it: kernel page KERNBASE + pa maps
\* pa, writable; a page table allocated later is zeroed
BootPte(p) == IF p >= KERNPG THEN W(p - KERNPG, PTE_P + PTE_W) ELSE W0

\* the leaf entry of page p; pt holds the entries written since boot
PteOf(pt, p) == IF p \in DOMAIN pt THEN pt[p] ELSE BootPte(p)

\* the page tables pt after the store *ptet = v to the leaf entry of page p
SetPte(pt, p, v) ==
    LET d == IF v = BootPte(p) THEN DOMAIN pt \ {p} ELSE DOMAIN pt \cup {p}
    IN  [q \in d |-> IF q = p THEN v ELSE pt[q]]

\* pgdir_walk(kern_pgdir, va, create): the leaf entry of va's page, after
\* allocating the page table when it is absent and create is set; fails
\* when the table is absent and cannot be (or is not to be) allocated
pgdir_walk(pd, nf, va, create) ==
    IF PDX(va) \in pd
    THEN [ok |-> TRUE, pgdir |-> pd, nfree |-> nf]
    ELSE IF create /\ nf > 0
    THEN [ok |-> TRUE, pgdir |-> pd \cup {PDX(va)}, nfree |-> nf - 1]
    ELSE [ok |-> FALSE, pgdir |-> pd, nfree |-> nf]

\* the hardware's translation of a data access to the byte at va: the
\* physical byte address, or a page fault
Translate(pd, pt, va, write) ==
    LET pte == PteOf(pt, va.pg)
    IN  IF PDX(va) \in pd /\ HasFlag(pte, PTE_P)
           /\ (~write \/ HasFlag(pte, PTE_W))
        THEN [ok |-> TRUE, pa |-> W(pte.pg, va.off)]
        ELSE [ok |-> FALSE, pa |-> W0]

\* the byte of physical memory m at pa; memory never written reads as 0
ByteOf(m, pa) == IF pa \in DOMAIN m THEN m[pa] ELSE 0

\* the word made of four bytes, lowest first
WordOfBytes(b0, b1, b2, b3) ==
    W(b3 * 4096 + b2 * 16 + (b1 \div 16), (b1 % 16) * 256 + b0)

\* the bytes of a word, lowest first
BytesOfWord(w) ==
    << w.off % 256,
       (w.pg % 16) * 16 + (w.off \div 256),
       (w.pg \div 16) % 256,
       w.pg \div 4096 >>

\* the physical frame of the first page table; the table of page-directory
\* entry x, when present, is the frame PTBASE + x
PTBASE == 16

PtFrame(x) == PTBASE + x

\* the page whose leaf entry is the word of physical memory at pa, -1 when
\* pa is not in the frame of a present page table
PteAt(pd, pa) ==
    IF pa.pg - PTBASE \in pd
    THEN (pa.pg - PTBASE) * NPTENTRIES + (pa.off \div 4)
    ELSE -1

\* the byte of physical memory at pa: a byte of a leaf entry when pa is in
\* a page table
PhysByte(pd, pt, m, pa) ==
    IF PteAt(pd, pa) >= 0
    THEN BytesOfWord(PteOf(pt, PteAt(pd, pa)))[(pa.off % 4) + 1]
    ELSE ByteOf(m, pa)

\* a 4-byte load from virtual address va
ReadWord(pd, pt, m, va) ==
    LET t == [k \in 0..3 |-> Translate(pd, pt, WAdd(va, k), FALSE)]
    IN  IF \A k \in 0..3 : t[k].ok
        THEN [ok |-> TRUE,
              val |-> WordOfBytes(PhysByte(pd, pt, m, t[0].pa),
                                  PhysByte(pd, pt, m, t[1].pa),
                                  PhysByte(pd, pt, m, t[2].pa),
                                  PhysByte(pd, pt, m, t[3].pa))]
        ELSE [ok |-> FALSE, val |-> W0]

\* memory m after the four bytes of w are stored at physical address pa
StoreWord(m, pa, w) ==
    LET bs == BytesOfWord(w)
        at == [k \in 0..3 |-> WAdd(pa, k)]
        new == {at[k] : k \in 0..3}
    IN  [a \in DOMAIN m \cup new |->
            IF a \in new THEN bs[(CHOOSE k \in 0..3 : at[k] = a) + 1]
            ELSE m[a]]

\* number of pages of physical memory
NPAGES == 32768

\* KADDR(pa): the kernel virtual address of a physical address; panics
\* when pa is beyond physical memory
KADDR(pa) ==
    IF pa.pg >= NPAGES THEN [ok |-> FALSE, va |-> W0]
    ELSE [ok |-> TRUE, va |-> W(pa.pg + KERNPG, pa.off)]

\* PADDR(va): the physical address of a kernel virtual address; panics
\* when va is below KERNBASE
PADDR(va) ==
    IF va.pg < KERNPG THEN [ok |-> FALSE, pa |-> W0]
    ELSE [ok |-> TRUE, pa |-> W(va.pg - KERNPG, va.off)]

----------------------------------------------------------------------------
(* State *)

VARIABLES
    pc,       \* where monitor() is: "readline", "runcmd", inside a command's
              \* loop, "returned" (runcmd has returned), "exited", or stopped
              \* by a trap ("fault") or a kernel panic ("panic")
    rd,       \* what the last readline returned: "none", "null", "line"
    line,     \* the line readline returned, as it was typed
    buf,      \* the line buffer, as runcmd's tokenizer leaves it
    argv,     \* runcmd's argv: the start positions of the tokens in buf
    ret,      \* the value runcmd returned
    out,      \* what cprintf has printed since the line was read
    called,   \* the handler invocations made for the line
    tf,       \* monitor's trapframe argument: "NULL" or "tf"
    pgdir,    \* kern_pgdir: the indexes of its present entries
    ptes,     \* the leaf page-table entries written since boot
    nfree,    \* free physical pages left for page tables
    mem,      \* physical memory: byte address -> byte
    ebp0,     \* what read_ebp() returns in mon_backtrace
    begin,    \* locals of the running command
    end,
    i,
    n,
    ebp,
    walked,   \* the addresses the command has passed to pgdir_walk
    nreads,   \* the memory words the command has loaded
    nwrites,  \* the stores the command has made through an entry that
              \* pgdir_walk returned
    pre,      \* the address space when the line was read
    tok,      \* the argument of a call of convert on its own
    res       \* and its result

vars == <<pc, rd, line, buf, argv, ret, out, called, tf, pgdir, ptes, nfree,
          mem, ebp0, begin, end, i, n, ebp, walked, nreads, nwrites, pre,
          tok, res>>

env == <<pgdir, ptes, nfree, mem>>

locals == <<begin, end, i, n, ebp>>

effects == <<walked, nreads, nwrites>>

\* one cprintf call: its kind and the values it formats
Pr(k, a, b, s) == [k |-> k, a |-> a, b |-> b, s |-> s, ws |-> <<>>]

PrFrame(a, b, ws) == [k |-> "frame", a |-> a, b |-> b, s |-> <<>>, ws |-> ws]

EnvNow(pd, pt, nf, m) == [pgdir |-> pd, ptes |-> pt, nfree |-> nf, mem |-> m]

----------------------------------------------------------------------------
(* Bounds and inputs *)

\* free pages at most, when the monitor starts
MaxFree == 1

\* iterations of one command's loop that are followed
MaxIter == 3

\* frames on the stack below mon_backtrace
MaxDepth == 2

\* the longest input lines have MAXARGS + MaxOver tokens
MaxOver == 1

\* the strings s[1] sep s[2] sep ... s[n]
RECURSIVE Join(_, _)
Join(s, sep) ==
    IF s = <<>> THEN <<>>
    ELSE IF Len(s) = 1 THEN s[1]
    ELSE s[1] \o sep \o Join(Tail(s), sep)

\* k copies of the word w
Rep(w, k) == [j \in 1..k |-> w]

T_0 == <<48>>

T_1 == <<49>>

T_2 == <<50>>

T_0x3 == <<48, 120, 51>>

T_0x5 == <<48, 120, 53>>

T_0x1000 == <<48, 120, 49, 48, 48, 48>>

T_0x2003 == <<48, 120, 50, 48, 48, 51>>

T_4096 == <<52, 48, 57, 54>>

T_0x2000 == <<48, 120, 50, 48, 48, 48>>

T_0x3000 == <<48, 120, 51, 48, 48, 48>>

T_0x3ff000 == <<48, 120, 51, 102, 102, 48, 48, 48>>

T_0x400000 == <<48, 120, 52, 48, 48, 48, 48, 48>>

\* the frame of the first page table, with the bits P and W
T_0x10003 == <<48, 120, 49, 48, 48, 48, 51>>

\* 2^30
T_0x40000000 == <<48, 120, 52, 48, 48, 48, 48, 48, 48, 48>>

T_0xf0001000 == <<48, 120, 102, 48, 48, 48, 49, 48, 48, 48>>

T_0xffffe000 == <<48, 120, 102, 102, 102, 102, 101, 48, 48, 48>>

T_0xffffffff == <<48, 120, 102, 102, 102, 102, 102, 102, 102, 102>>

\* "-1" and "zz": not numerals
T_minus1 == <<45, 49>>

T_zz == <<122, 122>>

\* "Help", "hel", "helpx", "quit": not command names
T_Help == <<72, 101, 108, 112>>

T_hel == <<104, 101, 108>>

T_helpx == <<104, 101, 108, 112, 120>>

T_quit == <<113, 117, 105, 116>>

CmdNames == {commands[k].name : k \in 1..NCOMMANDS}

OtherNames == {T_Help, T_hel, T_helpx, T_quit}

SP == <<32>>

\* a command word alone, with one argument, and with three
ShortLines ==
    {c : c \in CmdNames \cup OtherNames}
    \cup {Join(<<c, T_1>>, SP) : c \in CmdNames \cup {T_quit}}
    \cup {Join(<<c, T_0x1000, T_1, T_2>>, SP) : c \in CmdNames}

\* ranges of pages; the last one runs from the last page of the first page
\* table into the second page table
ShowLines ==
    {Join(<<Str_showmappings, a, b>>, SP) :
        a \in {T_0, T_0x1000, T_4096, T_0x400000, T_0xffffe000},
        b \in {T_0, T_0x1000, T_0x3000, T_0x400000, T_0xffffffff}}
    \cup {Join(<<Str_showmappings, T_0x3ff000, T_0x400000>>, SP)}

\* setPerm of the user page, with permission bits and with a value wider
\* than the permission field; of page 0, through a token that is no numeral;
\* of a page whose page table may be absent
PermLines ==
    {Join(<<Str_setPerm, a[1], a[2]>>, SP) :
        a \in { <<T_0x1000, T_0x5>>, <<T_0x1000, T_0x2003>>,
                <<T_zz, T_0x3>>, <<T_0x400000, T_0x3>> }}

DumpLines ==
    {Join(<<c, a, b>>, SP) :
        c \in {Str_vvm, Str_vpm},
        a \in {T_0, T_0x1000, T_0xf0001000, T_0xffffffff, T_zz},
        b \in {T_0, T_1, T_2, T_minus1}}
    \cup {Join(<<c, T_0x1000, T_0x40000000>>, SP) : c \in {Str_vvm, Str_vpm}}

\* empty and blank lines; leading, trailing, repeated and mixed whitespace
SpaceLines ==
    { <<>>, SP, <<9>>, <<13, 10>>, <<32, 9, 13, 10, 32>>,
      SP \o Str_help, Str_help \o SP, <<9>> \o Str_help \o <<13, 10>>,
      Join(<<Str_showmappings, T_0x1000, T_0x1000>>, <<32, 32>>),
      Join(<<Str_showmappings, T_0x1000, T_0x1000>>, <<9>>),
      <<32>> \o Join(<<Str_setPerm, T_0x1000, T_0x5>>, <<32, 9>>) \o <<10>>,
      Join(<<T_quit, T_1, T_2>>, <<13, 10>>) }

\* lines of MAXARGS - 2 .. MAXARGS + MaxOver tokens
LongLines ==
    {Join(<<c>> \o Rep(T_1, k - 1), sep) :
        c \in {Str_help, Str_showmappings, T_quit},
        k \in (MAXARGS - 2)..(MAXARGS + MaxOver),
        sep \in {SP, <<9, 32>>}}

Lines == ShortLines \cup ShowLines \cup PermLines \cup DumpLines
         \cup SpaceLines \cup LongLines

----------------------------------------------------------------------------
(* The initial state *)

RECURSIVE StoreAll(_, _)
StoreAll(m, ws) ==
    IF ws = <<>> THEN m
    ELSE StoreAll(StoreWord(m, ws[1][1], ws[1][2]), Tail(ws))

\* the kernel stack page, and frame j (1 is the innermost) on it; the
\* stack grows down, so a caller's frame is at a higher address
StackPg == 271

FrameOff(j) == 3072 + 64 * j

FrameVa(j) == W(KERNPG + StackPg, FrameOff(j))

\* the seven words of frame j of a chain of d frames: the caller's saved
\* ebp (0 in the outermost frame), the return address, five argument words
FrameWords(j, d) ==
    << <<W(StackPg, FrameOff(j)),
         IF j = d THEN W0 ELSE FrameVa(j + 1)>>,
       <<W(StackPg, FrameOff(j) + 4), W(KERNPG + 256, 16 * j)>> >>
    \o [k \in 1..5 |-> <<W(StackPg, FrameOff(j) + 4 + 4 * k), W(0, 10 * j + k)>>]

RECURSIVE StackWords(_, _)
StackWords(j, d) ==
    IF j > d THEN <<>> ELSE FrameWords(j, d) \o StackWords(j + 1, d)

\* data: two words in physical page 1 (kernel address 0xf0001000) and two
\* in physical page 5
DataWords ==
    << <<W(1, 0), W(703710, 3823)>>, <<W(1, 4), W(74565, 1656)>>,
       <<W(5, 0), W(912559, 3054)>>, <<W(5, 4), W(0, 42)>> >>

InitMem == StoreAll(<<>>, StackWords(1, MaxDepth) \o DataWords)

\* the address spaces the monitor may start in: the kernel's boot mapping
\* alone, or with a user page at 0x1000 mapped to physical page 5
InitSpaces ==
    { [pgdir |-> KernPDX, ptes |-> <<>>],
      [pgdir |-> KernPDX \cup {0}, ptes |-> (1 :> W(5, PTE_P + PTE_W + PTE_U))] }

Init ==
    /\ pc = "readline"
    /\ rd = "none"
    /\ line = <<>>
    /\ buf = <<>>
    /\ argv = <<>>
    /\ ret = 0
    /\ tf \in {"NULL", "tf"}
    /\ out = <<Pr("welcome", W0, W0, <<>>), Pr("typehelp", W0, W0, <<>>)>>
             \o (IF tf # "NULL" THEN <<Pr("trapframe", W0, W0, <<>>)>> ELSE <<>>)
    /\ called = <<>>
    /\ \E s \in InitSpaces : pgdir = s.pgdir /\ ptes = s.ptes
    /\ nfree \in 0..MaxFree
    /\ mem = InitMem
    /\ ebp0 = IF MaxDepth = 0 THEN W0 ELSE FrameVa(1)
    /\ begin = W0 /\ end = W0 /\ i = W0 /\ n = W0 /\ ebp = W0
    /\ walked = <<>> /\ nreads = 0 /\ nwrites = 0
    /\ pre = EnvNow(pgdir, ptes, nfree, mem)
    /\ tok = <<>> /\ res = W0

----------------------------------------------------------------------------
(* The commands *)

\* return r from the handler, and so from runcmd
Return(r) == ret' = r /\ pc' = "returned"

cprintf(s) == out' = out \o s

mon_help(argc, args) ==
    /\ cprintf([k \in 1..NCOMMANDS |-> Pr("help", W0, W0, commands[k].name)])
    /\ Return(0)
    /\ UNCHANGED <<env, locals, effects>>

mon_kerninfo(argc, args) ==
    /\ cprintf([k \in 1..6 |-> Pr("kerninfo", W(0, k), W0, <<>>)])
    /\ Return(0)
    /\ UNCHANGED <<env, locals, effects>>

mon_backtrace(argc, args) ==
    /\ ebp' = ebp0
    /\ cprintf(<<Pr("backtrace", W0, W0, <<>>)>>)
    /\ pc' = "mon_backtrace"
    /\ UNCHANGED <<ret, env, begin, end, i, n, effects>>

\* a test that lets extra arguments through
WrongArgc_lt(argc) == argc < 3

\* the argument count test of the commands that take two arguments
WrongArgc(argc) == argc # 3

Usage(name) ==
    /\ cprintf(<<Pr("usage", W0, W0, name)>>)
    /\ Return(0)
    /\ UNCHANGED <<env, locals, effects>>

mon_showmappings(argc, args) ==
    IF WrongArgc(argc) THEN Usage(Str_showmappings)
    ELSE /\ begin' = convert(args[2])
         /\ end' = convert(args[3])
         /\ cprintf(<<Pr("gotargs", begin', end', <<>>)>>)
         /\ i' = begin'
         /\ pc' = "mon_showmappings"
         /\ UNCHANGED <<ret, env, n, ebp, effects>>

\* *ptet &= ~0xfff; *ptet |= v
PermWord(old, v) == W(BitOr(old.pg, v.pg, 20), v.off)

setPerm(argc, args) ==
    IF WrongArgc(argc) THEN Usage(Str_setPerm)
    ELSE LET va == convert(args[2])
             v == convert(args[3])
             w == pgdir_walk(pgdir, nfree, va, TRUE)
             z == Translate(pgdir, ptes, W0, TRUE)
             old == ReadWord(pgdir, ptes, mem, W0).val
             tgt == PteAt(pgdir, z.pa)
         IN  /\ walked' = Append(walked, va)
             /\ pgdir' = w.pgdir
             /\ nfree' = w.nfree
             /\ IF w.ok
                THEN \* the stores go to the leaf entry of va's page
                     /\ ptes' = SetPte(ptes, va.pg, PermWord(PteOf(ptes, va.pg), v))
                     /\ nwrites' = nwrites + 1
                     /\ Return(0)
                     /\ UNCHANGED <<mem, nreads>>
                ELSE \* ptet is null: the stores go to virtual address 0,
                     \* which traps unless page 0 is mapped writable
                     IF z.ok /\ tgt < 0
                     THEN /\ mem' = StoreWord(mem, z.pa, PermWord(old, v))
                          /\ nreads' = nreads + 1
                          /\ Return(0)
                          /\ UNCHANGED <<ptes, nwrites>>
                     ELSE IF z.ok
                     THEN \* the word at address 0 is the leaf entry of page
                          \* tgt.  When that is page 0 itself, the first
                          \* store unmaps the page it goes through: the
                          \* second store completes if the processor still
                          \* holds the translation, and traps if it does not
                          /\ \/ /\ ptes' = SetPte(ptes, tgt, PermWord(old, v))
                                /\ Return(0)
                             \/ /\ tgt = 0
                                /\ ptes' = SetPte(ptes, tgt, W(old.pg, 0))
                                /\ pc' = "fault"
                                /\ ret' = ret
                          /\ nreads' = nreads + 1
                          /\ UNCHANGED <<mem, nwrites>>
                     ELSE /\ pc' = "fault"
                          /\ UNCHANGED <<ret, ptes, mem, nreads, nwrites>>
             /\ UNCHANGED <<out, locals>>

\* (int*)begin + n
WordsEnd(p, cnt) ==
    LET d == WMul(cnt, 4)
        o == p.off + d.off
    IN  W((p.pg + d.pg + (o \div PGSIZE)) % NPG, o % PGSIZE)

\* p + n does not fit in the address space (n taken as an int is negative,
\* or p + 4n is 2^32 or more): the pointer arithmetic overflows, which the
\* language leaves undefined
WordsOverflow(p, cnt) ==
    \/ cnt.pg >= NPG \div 4
    \/ cnt # W0 /\ ~WLt(p, WordsEnd(p, cnt))

\* what the loop test i < p + n may yield before iteration k + 1: the
\* comparison with the wrapped sum, and, when the sum overflows, also the
\* count of iterations that a build may reduce the test to
DumpMore(a, p, cnt, k) ==
    {WLt(a, WordsEnd(p, cnt))}
    \cup (IF WordsOverflow(p, cnt)
          THEN {cnt.pg < NPG \div 2 /\ WLt(W(0, k), cnt)}
          ELSE {})

vpm(argc, args) ==
    IF WrongArgc(argc) THEN Usage(Str_vpm)
    ELSE LET b == convert(args[2])
             p == KADDR(b)
         IN  /\ begin' = b
             /\ n' = convert(args[3])
             /\ IF p.ok THEN i' = p.va /\ pc' = "vpm"
                ELSE i' = i /\ pc' = "panic"
             /\ UNCHANGED <<ret, out, env, end, ebp, effects>>

vvm(argc, args) ==
    IF WrongArgc(argc) THEN Usage(Str_vvm)
    ELSE /\ begin' = convert(args[2])
         /\ n' = convert(args[3])
         /\ i' = begin'
         /\ pc' = "vvm"
         /\ UNCHANGED <<ret, out, env, end, ebp, effects>>

\* commands[i].func(argc, argv, tf)
Call(func, argc, args) ==
    CASE func = "mon_help" -> mon_help(argc, args)
      [] func = "mon_kerninfo" -> mon_kerninfo(argc, args)
      [] func = "mon_backtrace" -> mon_backtrace(argc, args)
      [] func = "mon_showmappings" -> mon_showmappings(argc, args)
      [] func = "setPerm" -> setPerm(argc, args)
      [] func = "vvm" -> vvm(argc, args)
      [] func = "vpm" -> vpm(argc, args)

----------------------------------------------------------------------------
(* monitor and runcmd *)

\* buf = readline("K> "): a line, or NULL
ReadLine ==
    /\ pc = "readline"
    /\ \/ /\ rd' = "null"
          /\ line' = <<>>
          /\ buf' = <<>>
          /\ pc' = "readline"
       \/ \E l \in Lines :
            /\ rd' = "line"
            /\ line' = l
            /\ buf' = l
            /\ pc' = "runcmd"
    /\ out' = <<>>
    /\ UNCHANGED <<argv, ret, called, tf, env, ebp0, locals, effects, pre, tok, res>>

\* runcmd(buf, tf), up to the handler's return or its entry into a loop
RunCmd ==
    /\ pc = "runcmd"
    /\ LET t == ParseLoop(buf, 1, <<>>)
           argc == Len(t.argv)
           args == ArgStrings(t.buf, t.argv)
           k == Lookup(args[1])
       IN  /\ buf' = t.buf
           /\ argv' = t.argv
           /\ IF ~t.ok
              THEN /\ cprintf(<<Pr("toomany", W(0, MAXARGS), W0, <<>>)>>)
                   /\ Return(0)
                   /\ UNCHANGED <<called, env, locals, effects>>
              ELSE IF argc = 0
              THEN /\ Return(0)
                   /\ UNCHANGED <<out, called, env, locals, effects>>
              ELSE IF k = 0
              THEN /\ cprintf(<<Pr("unknown", W0, W0, args[1])>>)
                   /\ Return(0)
                   /\ UNCHANGED <<called, env, locals, effects>>
              ELSE /\ called' = Append(called,
                          [func |-> commands[k].func, argc |-> argc,
                           argv |-> args, tf |-> tf])
                   /\ Call(commands[k].func, argc, args)
    /\ UNCHANGED <<rd, line, tf, ebp0, pre, tok, res>>

\* the loop test and the stride of mon_showmappings
ShowCond(a, e) == WLe(a, e)

ShowNext(a) == WAdd(a, PGSIZE)

\* the flag of pgdir_walk's third argument in mon_showmappings
ShowCreate == TRUE

\* a failed walk that is reported and skipped
ShowWalkError_skip ==
    /\ cprintf(<<Pr("walkerror", W0, W0, <<>>)>>)
    /\ i' = ShowNext(i)
    /\ UNCHANGED <<pc, ret>>

\* if (!ptet) { cprintf("Page walk error!\n"); return 0; }
ShowWalkError ==
    /\ cprintf(<<Pr("walkerror", W0, W0, <<>>)>>)
    /\ Return(0)
    /\ i' = i

\* one evaluation of the for loop of mon_showmappings
ShowStep ==
    /\ pc = "mon_showmappings"
    /\ IF ShowCond(i, end)
       THEN LET w == pgdir_walk(pgdir, nfree, i, ShowCreate)
                pte == PteOf(ptes, i.pg)
            IN  /\ Len(walked) < MaxIter
                /\ walked' = Append(walked, i)
                /\ pgdir' = w.pgdir
                /\ nfree' = w.nfree
                /\ IF ~w.ok
                   THEN ShowWalkError
                   ELSE /\ cprintf(<<Pr("va", i, W0, <<>>),
                             IF HasFlag(pte, PTE_P)
                             THEN Pr("mapped", W(pte.pg, 0), W0,
                                     << IF HasFlag(pte, PTE_P) THEN 1 ELSE 0,
                                        IF HasFlag(pte, PTE_U) THEN 1 ELSE 0,
                                        IF HasFlag(pte, PTE_W) THEN 1 ELSE 0 >>)
                             ELSE Pr("notmapped", W0, W0, <<>>)>>)
                        /\ i' = ShowNext(i)
                        /\ UNCHANGED <<pc, ret>>
       ELSE /\ Return(0)
            /\ UNCHANGED <<out, pgdir, nfree, i, walked>>
    /\ UNCHANGED <<rd, line, buf, argv, called, tf, tok, res, ptes, mem, ebp0, begin, end, n,
                   ebp, nreads, nwrites, pre>>

\* a walk that takes the return address for the caller's frame
BacktraceCaller_eip(r) == r[1].val

\* ebp = (uint32_t*)*ebp, r[k] being the word loaded from ebp + k
BacktraceCaller(r) == r[0].val

\* one evaluation of the while loop of mon_backtrace
BacktraceStep ==
    /\ pc = "mon_backtrace"
    /\ IF ebp # W0
       THEN LET r == [k \in 0..6 |-> ReadWord(pgdir, ptes, mem, WAdd(ebp, 4 * k))]
            IN  /\ nreads < 7 * MaxIter
                /\ IF \A k \in 0..6 : r[k].ok
                   THEN /\ cprintf(<<PrFrame(ebp, r[1].val,
                                        [k \in 1..5 |-> r[k + 1].val]),
                                     Pr("symbol", r[1].val, W0, <<>>)>>)
                        /\ nreads' = nreads + 7
                        /\ ebp' = BacktraceCaller(r)
                        /\ UNCHANGED <<pc, ret>>
                   ELSE /\ pc' = "fault"
                        /\ UNCHANGED <<ret, out, nreads, ebp>>
       ELSE /\ Return(0)
            /\ UNCHANGED <<out, nreads, ebp>>
    /\ UNCHANGED <<rd, line, buf, argv, called, tf, tok, res, env, ebp0, begin, end, i, n,
                   walked, nwrites, pre>>

\* one evaluation of the for loop of vvm
VvmStep ==
    /\ pc = "vvm"
    /\ \E more \in DumpMore(i, begin, n, nreads) :
       IF more
       THEN LET r == ReadWord(pgdir, ptes, mem, i)
            IN  /\ nreads < MaxIter
                /\ IF r.ok
                   THEN /\ cprintf(<<Pr("value", i, r.val, <<>>)>>)
                        /\ nreads' = nreads + 1
                        /\ i' = WAdd(i, 4)
                        /\ UNCHANGED <<pc, ret>>
                   ELSE /\ pc' = "fault"
                        /\ UNCHANGED <<ret, out, nreads, i>>
       ELSE /\ Return(0)
            /\ UNCHANGED <<out, nreads, i>>
    /\ UNCHANGED <<rd, line, buf, argv, called, tf, tok, res, env, ebp0, begin, end, n, ebp,
                   walked, nwrites, pre>>

\* one evaluation of the for loop of vpm
VpmStep ==
    /\ pc = "vpm"
    /\ \E more \in DumpMore(i, KADDR(begin).va, n, nreads) :
       IF more
       THEN LET r == ReadWord(pgdir, ptes, mem, i)
                pa == PADDR(i)
            IN  /\ nreads < MaxIter
                /\ IF ~pa.ok
                   THEN /\ pc' = "panic"
                        /\ UNCHANGED <<ret, out, nreads, i>>
                   ELSE IF r.ok
                   THEN /\ cprintf(<<Pr("value", pa.pa, r.val, <<>>)>>)
                        /\ nreads' = nreads + 1
                        /\ i' = WAdd(i, 4)
                        /\ UNCHANGED <<pc, ret>>
                   ELSE /\ pc' = "fault"
                        /\ UNCHANGED <<ret, out, nreads, i>>
       ELSE /\ Return(0)
            /\ UNCHANGED <<out, nreads, i>>
    /\ UNCHANGED <<rd, line, buf, argv, called, tf, tok, res, env, ebp0, begin, end, n, ebp,
                   walked, nwrites, pre>>

\* a test that also breaks on 0
MonitorBreaks_le(r) == r <= 0

\* if (runcmd(buf, tf) < 0) break;
MonitorBreaks(r) == r < 0

\* monitor's test of runcmd's return value; the next iteration starts with
\* the command's locals dead
MonitorTest ==
    /\ pc = "returned"
    /\ pc' = IF MonitorBreaks(ret) THEN "exited" ELSE "readline"
    /\ line' = <<>>
    /\ buf' = <<>>
    /\ argv' = <<>>
    /\ out' = <<>>
    /\ called' = <<>>
    /\ begin' = W0 /\ end' = W0 /\ i' = W0 /\ n' = W0 /\ ebp' = W0
    /\ walked' = <<>> /\ nreads' = 0 /\ nwrites' = 0
    /\ pre' = EnvNow(pgdir, ptes, nfree, mem)
    /\ UNCHANGED <<rd, ret, tf, env, ebp0, tok, res>>

Next ==
    \/ ReadLine
    \/ RunCmd
    \/ ShowStep
    \/ BacktraceStep
    \/ VvmStep
    \/ VpmStep
    \/ MonitorTest

Spec == Init /\ [][Next]_vars

----------------------------------------------------------------------------
(* convert on its own: the numeral parser applied to one token *)

\* digits of the short tokens, at most
MaxDigits == 2

SeqsUpTo(S, k) == UNION {[1..j -> S] : j \in 0..k}

DecDigits == 48..57

HexDigits == (48..57) \cup (97..102)

\* tokens whose value does not fit in, or fills, a 32-bit word, with the
\* value modulo 2^32
LongNumerals ==
    { <<<<52, 50, 57, 52, 57, 54, 55, 50, 57, 53>>,
        W(1048575, 4095)>>,                         \* 4294967295
      <<<<52, 50, 57, 52, 57, 54, 55, 50, 57, 54>>,
        W(0, 0)>>,                                  \* 4294967296
      <<<<52, 50, 57, 52, 57, 54, 55, 51, 48, 49>>,
        W(0, 5)>>,                                  \* 4294967301
      <<<<57, 57, 57, 57, 57, 57, 57, 57, 57, 57>>,
        W(344254, 1023)>>,                          \* 9999999999
      <<<<49, 50, 51, 52, 53, 54, 55, 56, 57, 48,
          49, 50, 51, 52, 53, 54, 55, 56, 57, 48>>,
        W(963056, 2770)>>,                          \* 12345678901234567890
      <<<<50, 49, 52, 55, 52, 56, 51, 54, 52, 56>>,
        W(524288, 0)>>,                             \* 2147483648
      <<<<48, 120, 102, 102, 102, 102, 102, 102, 102, 102>>,
        W(1048575, 4095)>>,                         \* 0xffffffff
      <<<<48, 120, 49, 48, 48, 48, 48, 48, 48, 48, 48>>,
        W(0, 0)>>,                                  \* 0x100000000
      <<<<48, 120, 49, 50, 51, 52, 53, 54, 55, 56, 57>>,
        W(144470, 1929)>>,                          \* 0x123456789
      <<<<48, 120, 102, 102, 102, 102, 102, 102, 102, 102, 102, 102, 102>>,
        W(1048575, 4095)>>,                         \* 0xfffffffffff
      <<<<48, 120, 97, 98, 99, 100, 101, 102, 48, 49>>,
        W(703710, 3841)>>,                          \* 0xabcdef01
      <<<<48, 120, 56, 48, 48, 48, 48, 48, 48, 48>>,
        W(524288, 0)>> }                            \* 0x80000000

\* characters that are no digits of a numeral: - + . / below '0', and
\* : A g z above '9'
OddChars == {45, 43, 46, 47, 58, 65, 103, 122}

\* tokens with such characters, alone and next to the digit 1, with and
\* without the "0x" prefix
OddTokens ==
    LET body == {s \in SeqsUpTo(OddChars \cup {49}, MaxDigits) :
                    \E p \in 1..Len(s) : s[p] \in OddChars}
    IN  body \cup {<<48, 120>> \o s : s \in body}

ConvTokens ==
    (SeqsUpTo(DecDigits, MaxDigits) \ {<<>>})
    \cup {<<48, 120>> \o h : h \in SeqsUpTo(HexDigits, MaxDigits)}
    \cup {p[1] : p \in LongNumerals}
    \cup OddTokens

InitConvert ==
    /\ pc = "convert"
    /\ tok \in ConvTokens
    /\ res = W0
    /\ rd = "none" /\ line = <<>> /\ buf = <<>> /\ argv = <<>> /\ ret = 0
    /\ out = <<>> /\ called = <<>> /\ tf = "NULL"
    /\ pgdir = KernPDX /\ ptes = <<>> /\ nfree = 0 /\ mem = InitMem
    /\ ebp0 = W0
    /\ begin = W0 /\ end = W0 /\ i = W0 /\ n = W0 /\ ebp = W0
    /\ walked = <<>> /\ nreads = 0 /\ nwrites = 0
    /\ pre = EnvNow(pgdir, ptes, nfree, mem)

\* res = convert(tok)
ConvertCall ==
    /\ pc = "convert"
    /\ res' = convert(tok)
    /\ pc' = "converted"
    /\ UNCHANGED <<rd, line, buf, argv, ret, out, called, tf, env, ebp0,
                   locals, effects, pre, tok>>

SpecConvert == InitConvert /\ [][ConvertCall]_vars

----------------------------------------------------------------------------
(* backtrace on the stacks it may find: the line "backtrace" has been read *)
(* with a chain of frames on the kernel stack                              *)

\* the stack with frames 1..d, the outermost frame's saved ebp being link
ChainMem(d, link) ==
    IF d = 0 THEN StoreAll(<<>>, DataWords)
    ELSE StoreWord(StoreAll(<<>>, StackWords(1, d) \o DataWords),
                   W(StackPg, FrameOff(d)), link)

\* chains of 0..MaxIter frames: the outermost frame's saved ebp is 0, or
\* points back to a frame of the chain (the outermost itself included)
Chains ==
    {[d |-> d, link |-> l] :
        d \in 0..MaxIter, l \in {W0} \cup {FrameVa(j) : j \in 1..MaxIter}}

BacktraceLines == {Str_backtrace, Join(<<Str_backtrace, T_1>>, SP)}

InitBacktrace ==
    /\ pc = "runcmd"
    /\ rd = "line"
    /\ line \in BacktraceLines
    /\ buf = line
    /\ argv = <<>> /\ ret = 0 /\ out = <<>> /\ called = <<>>
    /\ tf \in {"NULL", "tf"}
    /\ pgdir = KernPDX /\ ptes = <<>> /\ nfree = 0
    /\ \E c \in Chains :
          /\ c.link = W0 \/ c.link.off <= FrameOff(c.d)
          /\ mem = ChainMem(c.d, c.link)
          /\ ebp0 = IF c.d = 0 THEN W0 ELSE FrameVa(1)
    /\ begin = W0 /\ end = W0 /\ i = W0 /\ n = W0 /\ ebp = W0
    /\ walked = <<>> /\ nreads = 0 /\ nwrites = 0
    /\ pre = EnvNow(pgdir, ptes, nfree, mem)
    /\ tok = <<>> /\ res = W0

NextBacktrace ==
    \/ RunCmd
    \/ BacktraceStep

SpecBacktrace == InitBacktrace /\ [][NextBacktrace]_vars

----------------------------------------------------------------------------
(* sequences of setPerm commands, in an address space with a user page     *)

\* setPerm of page 0 with the frame of its own page table and a writable
\* mapping, of the user page, and of a page whose page table is absent
PermSeqLines ==
    {Join(<<Str_setPerm, a[1], a[2]>>, SP) :
        a \in { <<T_0, T_0x10003>>, <<T_0x1000, T_0x5>>,
                <<T_0x1000, T_0x2003>>, <<T_0x400000, T_0x5>> }}

InitPerm ==
    /\ pc = "readline"
    /\ rd = "none"
    /\ line = <<>> /\ buf = <<>> /\ argv = <<>> /\ ret = 0
    /\ out = <<>> /\ called = <<>>
    /\ tf \in {"NULL", "tf"}
    /\ pgdir = KernPDX \cup {0}
    /\ ptes = (1 :> W(5, PTE_P + PTE_W + PTE_U))
    /\ nfree \in 0..MaxFree
    /\ mem = InitMem
    /\ ebp0 = IF MaxDepth = 0 THEN W0 ELSE FrameVa(1)
    /\ begin = W0 /\ end = W0 /\ i = W0 /\ n = W0 /\ ebp = W0
    /\ walked = <<>> /\ nreads = 0 /\ nwrites = 0
    /\ pre = EnvNow(pgdir, ptes, nfree, mem)
    /\ tok = <<>> /\ res = W0

\* buf = readline("K> "), the line being one of PermSeqLines
ReadPermLine ==
    /\ pc = "readline"
    /\ \E l \in PermSeqLines :
          /\ rd' = "line"
          /\ line' = l
          /\ buf' = l
          /\ pc' = "runcmd"
    /\ out' = <<>>
    /\ UNCHANGED <<argv, ret, called, tf, env, ebp0, locals, effects, pre, tok, res>>

NextPerm ==
    \/ ReadPermLine
    \/ RunCmd
    \/ MonitorTest

SpecPerm == InitPerm /\ [][NextPerm]_vars

----------------------------------------------------------------------------
(* What the claims are stated with *)

\* whitespace, as the tokenizer's contract names it: tab, carriage return,
\* newline, space
SpecWs == {9, 10, 13, 32}

\* the positions where a maximal run of non-whitespace characters starts
RunStarts(l) ==
    {p \in 1..Len(l) : l[p] \notin SpecWs /\ (p = 1 \/ l[p - 1] \in SpecWs)}

\* the last position of the run that starts at p
RunEnd(l, p) ==
    CHOOSE q \in p..Len(l) :
        /\ \A r \in p..q : l[r] \notin SpecWs
        /\ (q = Len(l) \/ l[q + 1] \in SpecWs)

\* the maximal runs of non-whitespace characters of l, left to right
Runs(l) ==
    LET st == RunStarts(l)
        nth(k) == CHOOSE p \in st : Cardinality({q \in st : q < p}) = k - 1
    IN  [k \in 1..Cardinality(st) |-> SubSeq(l, nth(k), RunEnd(l, nth(k)))]

\* runcmd has tokenized (and dispatched) the line that was read
Acted == rd = "line" /\ pc \notin {"readline", "runcmd"}

\* runcmd rejected the line for its number of tokens
Rejected == Acted /\ out # <<>> /\ out[1].k = "toomany"

\* the table entries whose name is the string s
EntriesNamed(s) == {k \in 1..NCOMMANDS : commands[k].name = s}

\* the command has returned 0 to monitor
Returned0 == pc = "returned" /\ ret = 0

----------------------------------------------------------------------------
(* C1: monitor leaves its read loop only when runcmd has returned a        *)
(* negative value, and then it does; after a null readline (runcmd is not  *)
(* called) and after a zero or positive return the next step of monitor is *)
(* another readline.                                                        *)
C1_LoopExit ==
    [][ /\ (pc' = "exited" /\ pc # "exited" => pc = "returned" /\ ret < 0)
        /\ (pc = "returned" /\ ret < 0 => pc' = "exited")
        /\ (pc = "returned" /\ ret >= 0 => pc' = "readline")
        /\ (pc = "readline" /\ rd' = "null" => pc' = "readline" /\ called' = <<>>)
        /\ (pc = "exited" => pc' = "exited") ]_vars

\* a command has returned 0 and monitor is reading the next line
C1_Witness == pc = "readline" /\ rd = "line" /\ ret = 0

(* C3: for an accepted non-empty line runcmd invokes a handler iff the     *)
(* first token is exactly the name of a table entry; then it invokes that  *)
(* entry's handler once, with argc the number of tokens, argv the tokens   *)
(* in order and monitor's trapframe, and returns what the handler returns  *)
(* (0 for every handler of the table); otherwise it invokes no handler,    *)
(* prints "Unknown command" and returns 0.                                 *)
C3_Dispatch ==
    LET toks == Runs(line)
        es == EntriesNamed(toks[1])
    IN  Acted /\ ~Rejected /\ toks # <<>> =>
            IF es # {}
            THEN /\ Cardinality(es) = 1
                 /\ called = << [func |-> commands[CHOOSE k \in es : TRUE].func,
                                 argc |-> Len(toks), argv |-> toks, tf |-> tf] >>
                 /\ (pc = "returned" => ret = 0)
            ELSE /\ called = <<>>
                 /\ out = <<Pr("unknown", W0, W0, toks[1])>>
                 /\ Returned0

\* setPerm has been dispatched with its two arguments and has returned
C3_Witness ==
    /\ Acted /\ pc = "returned"
    /\ Len(called) = 1 /\ called[1].func = "setPerm" /\ called[1].argc = 3

(* C4: for an empty line or a line of whitespace only runcmd makes no      *)
(* token, invokes no handler, prints nothing and returns 0.                *)
C4_BlankLine ==
    Acted /\ (\A p \in 1..Len(line) : line[p] \in SpecWs) =>
        argv = <<>> /\ called = <<>> /\ out = <<>> /\ Returned0

\* a line of several whitespace characters has been run
C4_Witness ==
    /\ Acted /\ Len(line) > 1 /\ \A p \in 1..Len(line) : line[p] \in SpecWs
    /\ pc = "returned"

(* C5: for a line that is not rejected for its number of tokens, the       *)
(* argument vector is exactly the sequence of maximal runs of              *)
(* non-whitespace characters of the line, left to right.                   *)
C5_Tokens == Acted /\ ~Rejected => ArgStrings(buf, argv) = Runs(line)

\* three tokens out of a line with leading, trailing and mixed whitespace
C5_Witness ==
    /\ Acted /\ ~Rejected /\ Len(argv) = 3
    /\ line[1] \in SpecWs /\ line[Len(line)] \in SpecWs
    /\ \E p \in 1..(Len(line) - 1) : line[p] = 32 /\ line[p + 1] = 9

(* C6: a line with more tokens than the tokenizer accepts makes runcmd     *)
(* print "Too many arguments" and return 0 without invoking a handler,     *)
(* whatever its first token.                                               *)
C6_TooMany ==
    /\ Acted /\ Len(Runs(line)) >= MAXARGS =>
          /\ out = <<Pr("toomany", W(0, MAXARGS), W0, <<>>)>>
          /\ called = <<>>
          /\ Returned0
    /\ Rejected => called = <<>> /\ Returned0 /\ Len(out) = 1

\* a rejected line whose first token is a registered command
C6_Witness ==
    /\ Rejected
    /\ EntriesNamed(Runs(line)[1]) # {}

----------------------------------------------------------------------------
\* the token is a decimal numeral, or "0x" and lower-case hexadecimal digits
IsNumeral(s) ==
    \/ s # <<>> /\ \A p \in 1..Len(s) : s[p] \in DecDigits
    \/ /\ Len(s) >= 2 /\ s[1] = 48 /\ s[2] = 120
       /\ \A p \in 3..Len(s) : s[p] \in HexDigits

\* the value of a decimal or hexadecimal digit character
DigitValue(ch) ==
    CASE ch \in 48..57 -> ch - 48
      [] ch = 97 -> 10 [] ch = 98 -> 11 [] ch = 99 -> 12
      [] ch = 100 -> 13 [] ch = 101 -> 14 [] ch = 102 -> 15

RECURSIVE Power(_, _)
Power(b, e) == IF e = 0 THEN 1 ELSE b * Power(b, e - 1)

\* the number that the digit string s denotes in base b (below 2^31)
RECURSIVE Denotes(_, _)
Denotes(s, b) ==
    IF s = <<>> THEN 0
    ELSE DigitValue(s[1]) * Power(b, Len(s) - 1) + Denotes(Tail(s), b)

\* the 32-bit word of a number below 2^31
WordOf(v) == W(v \div PGSIZE, v % PGSIZE)

\* the value of a numeral token modulo 2^32
NumeralValue(s) ==
    IF \E p \in LongNumerals : p[1] = s
    THEN (CHOOSE p \in LongNumerals : p[1] = s)[2]
    ELSE IF Len(s) >= 2 /\ s[1] = 48 /\ s[2] = 120
    THEN \* the last three hexadecimal digits are the low 12 bits
         LET h == SubSeq(s, 3, Len(s))
             cut == IF Len(h) > 3 THEN Len(h) - 3 ELSE 0
         IN  W(Denotes(SubSeq(h, 1, cut), 16),
               Denotes(SubSeq(h, cut + 1, Len(h)), 16))
    ELSE WordOf(Denotes(s, 10))

(* C7: for a token of decimal digits convert returns its decimal value,    *)
(* for "0x" followed by characters 0-9 and a-f the hexadecimal value of    *)
(* those characters; a value that does not fit in 32 bits is returned      *)
(* modulo 2^32.                                                            *)
C7_Convert == pc = "converted" /\ IsNumeral(tok) => res = NumeralValue(tok)

\* convert has returned 5 for 4294967301, which is 2^32 + 5
C7_Witness ==
    /\ pc = "converted"
    /\ tok = <<52, 50, 57, 52, 57, 54, 55, 51, 48, 49>>
    /\ res = W(0, 5)

----------------------------------------------------------------------------
\* the handler that runcmd has called for the line, "" when none
Func == IF Acted /\ called # <<>> THEN called[1].func ELSE ""

Argc == IF Acted /\ called # <<>> THEN called[1].argc ELSE 0

\* the argument count (with the name) that the command table of the
\* console's interface lists for each command
ListedArgc(f) ==
    IF f \in {"mon_help", "mon_kerninfo", "mon_backtrace"} THEN 1 ELSE 3

TakesNumerals == {"mon_showmappings", "setPerm", "vpm", "vvm"}

\* the command has walked no page table, stored to no entry, loaded no
\* word, and the address space is as it was
NoWork ==
    /\ walked = <<>> /\ nreads = 0 /\ nwrites = 0
    /\ EnvNow(pgdir, ptes, nfree, mem) = pre

OnlyUsage == Len(out) = 1 /\ out[1].k = "usage" /\ Returned0 /\ NoWork

(* C8 as stated: every registered command, called with an argument count   *)
(* other than the listed one, prints a usage string, returns 0 and does    *)
(* none of its work.                                                       *)
C8_UsageForAll ==
    Func # "" /\ Argc # ListedArgc(Func) => OnlyUsage

(* C8, amended: showmappings, setPerm, vpm and vvm, called with an         *)
(* argument count other than 3, print a usage string, return 0 and do none *)
(* of their work; help, kerninfo and backtrace do not look at their        *)
(* argument count: with any count they print no usage string and do what   *)
(* they do with count 1 (the command list, the kernel symbols, the stack   *)
(* walk).                                                                  *)
C8_UsageForNumeric ==
    /\ Func \in TakesNumerals /\ Argc # 3 => OnlyUsage
    /\ Func = "mon_help" =>
          /\ Len(out) = NCOMMANDS /\ \A k \in 1..NCOMMANDS : out[k].k = "help"
          /\ Returned0
    /\ Func = "mon_kerninfo" =>
          /\ Len(out) = 6 /\ \A k \in 1..6 : out[k].k = "kerninfo"
          /\ Returned0
    /\ Func = "mon_backtrace" =>
          /\ out[1].k = "backtrace"
          /\ pc = "returned" => ret = 0 /\ nreads > 0

\* setPerm called with three arguments has printed its usage and returned
C8_Witness == Func = "setPerm" /\ Argc = 4 /\ OnlyUsage

----------------------------------------------------------------------------
\* mon_showmappings is running, or has run, its loop
InShow == Func = "mon_showmappings" /\ Argc = 3

WalkFailed == \E j \in 1..Len(out) : out[j].k = "walkerror"

\* how many of begin, begin+PGSIZE, begin+2*PGSIZE, ... are <= e
RangeCount(b, e) ==
    IF WLe(b, e)
    THEN (e.pg - b.pg) + (IF b.off <= e.off THEN 1 ELSE 0)
    ELSE 0

\* the k-th visit is to begin + (k-1)*PGSIZE, which is not above end
VisitsInOrder ==
    \A k \in 1..Len(walked) :
        /\ walked[k].off = begin.off
        /\ walked[k].pg = begin.pg + (k - 1)
        /\ WLe(walked[k], end)

(* C9 as stated: when no walk fails, showmappings visits exactly begin,    *)
(* begin+PGSIZE, ... up to end, each once and in ascending order, prints   *)
(* one report line per visited address and returns 0; it visits nothing    *)
(* when begin > end; the iteration is finite for every begin and end.      *)
C9_VisitsRange ==
    InShow /\ ~WalkFailed =>
        /\ VisitsInOrder
        /\ Len(walked) <= RangeCount(begin, end)
        /\ Cardinality({j \in 1..Len(out) : out[j].k = "va"}) = Len(walked)
        /\ \A k \in 1..Len(walked) : out[2 * k].k = "va" /\ out[2 * k].a = walked[k]
        /\ pc = "returned" => ret = 0 /\ Len(walked) = RangeCount(begin, end)

\* the same, for a range that ends below the last page of the address space
C9_BelowTopPage ==
    end.pg < NPG - 1 => C9_VisitsRange

\* the leaf entry of page p is present in the address space e
MappedIn(e, p) ==
    p \div NPTENTRIES \in e.pgdir /\ HasFlag(PteOf(e.ptes, p), PTE_P)

(* C10 as stated: showmappings leaves every page-directory entry and every *)
(* page-table entry as it was, and prints "not mapped" for each page of    *)
(* the range that has no mapping, also when its page table is absent.      *)
C10_ReadOnly ==
    InShow =>
        /\ pgdir = pre.pgdir
        /\ ptes = pre.ptes
        /\ \A k \in 1..Len(walked) :
              ~MappedIn(pre, walked[k].pg) =>
                  \E j \in 1..(Len(out) - 1) :
                      /\ out[j].k = "va" /\ out[j].a = walked[k]
                      /\ out[j + 1].k = "notmapped"

----------------------------------------------------------------------------
\* the line has hit one of the error paths: too many tokens, an unknown
\* command, a wrong argument count, a token that is no numeral where one
\* is expected, a failed walk in showmappings
ErrorPath ==
    /\ Acted
    /\ \/ Rejected
       \/ Runs(line) # <<>> /\ EntriesNamed(Runs(line)[1]) = {}
       \/ Func # "" /\ Argc # ListedArgc(Func)
       \/ /\ Func \in TakesNumerals /\ Argc = 3
          /\ \E k \in 2..3 : ~IsNumeral(called[1].argv[k])
       \/ InShow /\ WalkFailed

\* an error path that is not a token that is no numeral
HandledErrorPath ==
    /\ ErrorPath
    /\ ~(Func \in TakesNumerals /\ Argc = 3)

(* C2 as stated: no line that hits an error path ends the console session: *)
(* runcmd returns a non-negative value and monitor goes on to read the     *)
(* next line.                                                              *)
C2_ErrorsNeverEnd ==
    ErrorPath =>
        /\ pc \notin {"fault", "panic", "exited"}
        /\ pc = "returned" => ret >= 0

\* the same for the error paths that runcmd and the handlers test for
C2_HandledErrorsReturn ==
    HandledErrorPath => Func = "mon_backtrace" \/ Returned0

----------------------------------------------------------------------------
\* the k-th walk of the running command returned no entry: the page table
\* of the address is still absent
WalkFailedAt(k) == PDX(walked[k]) \notin pgdir

(* C11: when a walk of showmappings fails, it is the last one: the command *)
(* has printed the walk-error message as its last line, no mapping line    *)
(* for the failed page, and has returned 0 with i still at the failed      *)
(* page; each page before it has exactly one report (its address and       *)
(* "mapped" or "not mapped"), in order.  The message is printed only for a *)
(* failed walk.                                                            *)
C11_WalkFailure ==
    InShow =>
        /\ WalkFailed => walked # <<>> /\ WalkFailedAt(Len(walked))
        /\ \A k \in 1..Len(walked) :
              WalkFailedAt(k) =>
                  /\ k = Len(walked)
                  /\ Returned0
                  /\ i = walked[k]
                  /\ Len(out) = 2 * k
                  /\ out[2 * k].k = "walkerror"
                  /\ \A j \in 1..(k - 1) :
                        /\ out[2 * j].k = "va" /\ out[2 * j].a = walked[j]
                        /\ out[2 * j + 1].k \in {"mapped", "notmapped"}
                        /\ walked[j] # walked[k]

\* the walk of the second page has failed after the first was reported
C11_Witness ==
    /\ InShow /\ Len(walked) = 2 /\ WalkFailedAt(2) /\ ~WalkFailedAt(1)
    /\ out[2].k = "va" /\ out[4].k = "walkerror"

----------------------------------------------------------------------------
\* setPerm has been called with two numerals and its walk has returned an
\* entry, which it has stored to
PermDone ==
    /\ Func = "setPerm" /\ Argc = 3 /\ pc = "returned"
    /\ IsNumeral(called[1].argv[2]) /\ IsNumeral(called[1].argv[3])
    /\ nwrites = 1

PermAddr == NumeralValue(called[1].argv[2])

PermBits == NumeralValue(called[1].argv[3])

(* C12 as stated: after setPerm(addr, bits) whose walk succeeds, for every *)
(* value of bits, the low 12 bits of the leaf entry of addr's page are     *)
(* exactly bits and its upper 20 bits (the frame) are what they were       *)
(* before the command.                                                     *)
C12_PermExact ==
    PermDone =>
        /\ PteOf(ptes, PermAddr.pg) = W(PteOf(ptes, PermAddr.pg).pg, PermBits.off)
        /\ PermBits = W(0, PteOf(ptes, PermAddr.pg).off)
        /\ PteOf(ptes, PermAddr.pg).pg = PteOf(pre.ptes, PermAddr.pg).pg

\* the same for values of bits below 2^12
C12_PermBelowPage ==
    PermDone /\ PermBits.pg = 0 =>
        /\ PteOf(ptes, PermAddr.pg).off = PermBits.off
        /\ PteOf(ptes, PermAddr.pg).pg = PteOf(pre.ptes, PermAddr.pg).pg

----------------------------------------------------------------------------
(* C13 as stated: when the walk of setPerm returns no entry, setPerm       *)
(* prints an error, stores nothing (memory and every page-table entry are  *)
(* as they were) and returns a non-negative value.                         *)
C13_PermRejects ==
    /\ Func = "setPerm" /\ Argc = 3 /\ walked # <<>> /\ WalkFailedAt(1)
    /\ IsNumeral(called[1].argv[2]) /\ IsNumeral(called[1].argv[3])
    =>  /\ pc = "returned" /\ ret >= 0
        /\ out # <<>>
        /\ mem = pre.mem
        /\ ptes = pre.ptes

----------------------------------------------------------------------------
\* the word of memory at kernel address va, as the line found it
WordAt(va) == ReadWord(pre.pgdir, pre.ptes, pre.mem, va).val

\* the frame pointers of the chain that starts at e, followed for at most
\* k frames: e, the saved ebp of e, ... up to the sentinel 0
RECURSIVE ChainFrom(_, _)
ChainFrom(e, k) ==
    IF e = W0 \/ k = 0 THEN <<>> ELSE <<e>> \o ChainFrom(WordAt(e), k - 1)

\* the chain read_ebp() starts, when it reaches the sentinel within
\* MaxIter frames; its frames are then distinct
TheChain == ChainFrom(ebp0, MaxIter + 1)

ChainEnds == Len(TheChain) <= MaxIter

\* the record that backtrace is to print for the frame at e
FrameRecord(e) ==
    PrFrame(e, WordAt(WAdd(e, 4)), [k \in 1..5 |-> WordAt(WAdd(e, 4 + 4 * k))])

\* the frame records printed so far
FrameRecords == {j \in 1..Len(out) : out[j].k = "frame"}

(* C14: on a chain of n >= 0 frames that ends at the sentinel, backtrace   *)
(* prints its header and then one record per frame in chain order, from    *)
(* the starting frame outwards: the frame pointer, the word at frame+1     *)
(* and the five words at frame+2..frame+6, each followed by its symbol     *)
(* line; it has printed exactly n records when it returns, and it returns  *)
(* 0.                                                                      *)
C14_Backtrace ==
    Func = "mon_backtrace" /\ ChainEnds =>
        /\ pc \in {"mon_backtrace", "returned"}
        /\ out[1].k = "backtrace"
        /\ Cardinality(FrameRecords) <= Len(TheChain)
        /\ Len(out) = 1 + 2 * Cardinality(FrameRecords)
        /\ \A j \in 1..Cardinality(FrameRecords) :
              /\ out[2 * j] = FrameRecord(TheChain[j])
              /\ out[2 * j + 1] = Pr("symbol", WordAt(WAdd(TheChain[j], 4)), W0, <<>>)
        /\ pc = "returned" =>
              ret = 0 /\ Cardinality(FrameRecords) = Len(TheChain)

\* backtrace has returned from a chain of MaxIter frames
C14_Witness ==
    /\ Func = "mon_backtrace" /\ ChainEnds /\ Len(TheChain) = MaxIter
    /\ pc = "returned"
    /\ Cardinality(FrameRecords) = MaxIter

\* backtrace has returned from the empty chain
C14_WitnessEmpty ==
    /\ Func = "mon_backtrace" /\ TheChain = <<>>
    /\ pc = "returned" /\ Len(out) = 1

----------------------------------------------------------------------------
(* C15 as stated: backtrace is bounded on a chain that never reaches the   *)
(* sentinel: when the chain leads back to a frame already visited, the     *)
(* walk stops and reports it, so no frame is printed a second time.        *)
(* (Nothing is stored by the walk: once a frame is visited again, the loop *)
(* is where it was, and goes round for ever.)                              *)
C15_StopsOnCycle ==
    Func = "mon_backtrace" =>
        \A j, k \in FrameRecords : j # k => out[j].a # out[k].a

----------------------------------------------------------------------------
\* vvm or vpm has been called with two numerals, the start address and the
\* word count
InDump ==
    /\ Func \in {"vvm", "vpm"} /\ Argc = 3
    /\ IsNumeral(called[1].argv[2]) /\ IsNumeral(called[1].argv[3])

DumpStart == NumeralValue(called[1].argv[2])

DumpCount == NumeralValue(called[1].argv[3])

\* the virtual address the dump starts to read at
DumpVa == IF Func = "vpm" THEN KADDR(DumpStart).va ELSE DumpStart

\* the start address is mapped when the line is read; in physical mode it
\* is the physical counterpart of a kernel address
DumpMapped ==
    /\ Func = "vpm" => KADDR(DumpStart).ok
    /\ Translate(pre.pgdir, pre.ptes, DumpVa, FALSE).ok

\* the word of physical memory at pa when the line is read
PhysWord(pa) ==
    WordOfBytes(ByteOf(pre.mem, pa), ByteOf(pre.mem, WAdd(pa, 1)),
                ByteOf(pre.mem, WAdd(pa, 2)), ByteOf(pre.mem, WAdd(pa, 3)))

\* line k of the dump shows the address start + 4(k-1) and the word of
\* physical memory at the physical counterpart of that address
DumpLineOk(k) ==
    LET va == WAdd(DumpVa, 4 * (k - 1))
    IN  /\ out[k].k = "value"
        /\ out[k].a = WAdd(DumpStart, 4 * (k - 1))
        /\ out[k].b = PhysWord(Translate(pre.pgdir, pre.ptes, va, FALSE).pa)

DumpChangesNothing ==
    mem = pre.mem /\ ptes = pre.ptes /\ pgdir = pre.pgdir

(* C16 as stated: for every word count n and every mapped (word-aligned)  *)
(* start address, vvm(addr, n) and vpm(phys, n) print exactly n lines,     *)
(* line k for the word at start + 4k, with the value of physical memory at *)
(* the physical counterpart (so the values of the two modes are the same), *)
(* and change neither memory nor a page-table entry.                       *)
C16_DumpExact ==
    InDump /\ DumpMapped /\ DumpStart.off % 4 = 0 =>
        /\ \A k \in 1..Len(out) : DumpLineOk(k)
        /\ DumpChangesNothing
        /\ pc = "returned" => ret = 0 /\ W(0, Len(out)) = DumpCount

\* the same for word counts n with start + 4n not beyond the end of the
\* address space
C16_DumpInRange ==
    /\ InDump /\ DumpMapped
    /\ ~WordsOverflow(DumpVa, DumpCount)
    =>  /\ \A k \in 1..Len(out) : DumpLineOk(k)
        /\ DumpChangesNothing
        /\ pc = "returned" => ret = 0 /\ W(0, Len(out)) = DumpCount

----------------------------------------------------------------------------
\* the characters convert accumulates, and its base
TokenHex(s) == Len(s) >= 2 /\ s[1] = 48 /\ s[2] = 120

TokenBody(s) == IF TokenHex(s) THEN SubSeq(s, 3, Len(s)) ELSE s

TokenBase(s) == IF TokenHex(s) THEN 16 ELSE 10

\* result = result*base + d[ch] over the characters of s, left to right,
\* modulo 2^32 (acc.off is never negative: the test only makes the
\* evaluation of acc strict)
RECURSIVE AccumulateFrom(_, _, _, _, _)
AccumulateFrom(s, p, base, d, acc) ==
    IF p > Len(s) \/ acc.off < 0 THEN acc
    ELSE AccumulateFrom(s, p + 1, base, d, WAdd(WMul(acc, base), d[s[p]]))

Accumulate(s, base, d) == AccumulateFrom(s, 1, base, d, W0)

\* the contribution of each character as stated: its value for '0'..'9',
\* code - 'a' + 10 for every other character
StatedDigit == [ch \in 1..127 |-> IF ch \in 48..57 THEN ch - 48 ELSE ch - 87]

\* the contribution of each character in the code: code - '0' for '0'..'9'
\* and for the characters below '0', code - 'a' + 10 for those above '9'
CodeDigit ==
    [ch \in 1..127 |->
        CASE ch < 48 -> ch - 48
          [] ch \in 48..57 -> ch - 48
          [] ch > 57 -> ch - 87]

(* C17 as stated: in both bases every character that is not '0'..'9',      *)
(* those below '0' included, contributes code - 'a' + 10 to                *)
(* result = result*base + digit.                                           *)
C17_OthersAreLetters ==
    pc = "converted" =>
        res = Accumulate(TokenBody(tok), TokenBase(tok), StatedDigit)

(* C17, amended: in both bases a character above '9' contributes           *)
(* code - 'a' + 10, and a character below '0' (such as - + . /)            *)
(* contributes code - '0', a negative number, like a decimal digit.        *)
C17_BelowZeroAreDigits ==
    pc = "converted" =>
        res = Accumulate(TokenBody(tok), TokenBase(tok), CodeDigit)

\* convert has returned -29 for "-1": (-3) * 10 + 1
C17_Witness ==
    /\ pc = "converted"
    /\ tok = <<45, 49>>
    /\ res = W(NPG - 1, PGSIZE - 29)

----------------------------------------------------------------------------
(* C18 as stated: the token limit is the number that the "Too many         *)
(* arguments (max 16)" message prints, MAXARGS: a line is rejected if and  *)
(* only if it has more than MAXARGS tokens.                                *)
C18_LimitAsStated ==
    Acted => (Rejected <=> Len(Runs(line)) > MAXARGS)

\* the limit that is enforced: a line is rejected if and only if it has
\* more than MAXARGS - 1 tokens
C18_LimitIsOneLess ==
    Acted => (Rejected <=> Len(Runs(line)) > MAXARGS - 1)

----------------------------------------------------------------------------
\* the pages whose leaf entry is not what it was when the line was read
ChangedPages ==
    {p \in DOMAIN ptes \cup DOMAIN pre.ptes : PteOf(ptes, p) # PteOf(pre.ptes, p)}

(* C19 as stated: a command changes a leaf entry only if it is setPerm and *)
(* the entry is that of the page of setPerm's address argument.            *)
C19_SingleMapping ==
    Acted =>
        IF Func = "setPerm" /\ Argc = 3
        THEN ChangedPages \subseteq {convert(called[1].argv[2]).pg}
        ELSE ChangedPages = {}

\* the same for a setPerm whose walk returns an entry
C19_SingleMappingWalked ==
    Acted /\ (walked # <<>> => ~WalkFailedAt(1)) =>
        IF Func = "setPerm" /\ Argc = 3
        THEN ChangedPages \subseteq {convert(called[1].argv[2]).pg}
        ELSE ChangedPages = {}

----------------------------------------------------------------------------
(* C20: in runcmd argc never exceeds MAXARGS - 1 and every store to        *)
(* argv[argc], of a token's start or of the terminating null, has its      *)
(* index within the MAXARGS elements of the array; when a handler is       *)
(* called, argc is the number of tokens stored, argv[0..argc-1] point to   *)
(* the starts of the tokens in the buffer (none is null) and argv[argc] is *)
(* null.                                                                   *)
C20_ArgvBounds ==
    Acted =>
        /\ Len(argv) <= MAXARGS - 1
        /\ ArgvWritten(argv, ~Rejected) \subseteq 0..(MAXARGS - 1)
        /\ called # <<>> =>
              /\ called[1].argc = Len(argv)
              /\ \A k \in 0..(Len(argv) - 1) :
                    /\ ArgvSlot(argv, k) \in 1..Len(buf)
                    /\ buf[ArgvSlot(argv, k)] \notin SpecWs \cup {0}
              /\ Len(argv) \in ArgvWritten(argv, TRUE)
              /\ ArgvSlot(argv, Len(argv)) = 0

\* a handler has been called with MAXARGS - 1 tokens
C20_Witness ==
    /\ Acted /\ called # <<>>
    /\ called[1].argc = MAXARGS - 1
    /\ MAXARGS - 1 \in ArgvWritten(argv, TRUE)

====
